---- MODULE Spec2Model ----
(***************************************************************************)
(* A model of the ahrefs-mcp-server dispatch engine (src/src/server.ts):   *)
(* the call-tool handler (catalog lookup, argument mapping, upstream call, *)
(* response translation), the failure translation mapApiErrorToMcpError,   *)
(* the single SSE session slot and the two termination-signal handlers.    *)
(*                                                                         *)
(* JavaScript values are tagged records.  A JavaScript string is a         *)
(* sequence of characters; a character is written as a TLA+ string, and a  *)
(* fixed text of the program ("Bearer ", "application/json") is written as *)
(* one such unit.                                                          *)
(***************************************************************************)
EXTENDS Integers, Sequences, FiniteSets, TLC

VARIABLES
    tools,            \* the imported catalog (server.ts:15)
    API_KEY,          \* process.env.API_KEY (server.ts:21)
    transport,        \* the session slot (server.ts:79); 0 is null
    established,      \* number of SSEServerTransport objects created so far
    serverTransport,  \* the transport the Server object is connected to; 0 is none
    connecting,       \* sessions whose server.connect() promise is pending
    closedSessions,   \* sessions that have been closed
    closing,          \* signals whose handler awaits server.close()
    closeStarted,     \* signals whose handler has called server.close()
    closeCompleted,   \* signals whose awaited server.close() has resolved
    exited,           \* the process has exited
    exitCode,         \* its exit code (-1 while running)
    calls,            \* per posted message: the call-tool request and its outcome
    frames,           \* activation records of the handler invocations
    mapIn,            \* argument of a direct mapApiErrorToMcpError application
    mapOut            \* its result

vars == <<tools, API_KEY, transport, established, serverTransport, connecting,
          closedSessions, closing, closeStarted, closeCompleted, exited,
          exitCode, calls, frames, mapIn, mapOut>>

--------------------------------------------------------------------------
(* Bounds                                                                  *)

MaxCalls == 2
MaxSessions == 2
MaxToolArgLen == 3

--------------------------------------------------------------------------
(* JavaScript values                                                       *)

Undefined == [t |-> "undefined"]
Null == [t |-> "null"]
Str(s) == [t |-> "string", s |-> s]
Obj(o) == [t |-> "object", o |-> o]
EmptyObject == Obj(<<>>)

IsNullish(v) == v.t \in {"undefined", "null"}

\* Truthiness as used by `!x` and `a || b`.
Truthy(v) ==
    CASE v.t = "undefined" -> FALSE
      [] v.t = "null" -> FALSE
      [] v.t = "string" -> v.s # <<>>
      [] OTHER -> TRUE

\* a || b
Or(a, b) == IF Truthy(a) THEN a ELSE b

\* o[k] on an object value; a primitive has no own data properties.
Get(v, k) ==
    IF v.t = "object" /\ k \in DOMAIN v.o THEN v.o[k] ELSE Undefined

\* v?.k
OptGet(v, k) == IF IsNullish(v) THEN Undefined ELSE Get(v, k)

\* o[k] = x on an object value
Put(v, k, x) ==
    Obj([n \in (DOMAIN v.o) \cup {k} |-> IF n = k THEN x ELSE v.o[n]])

\* String(v) / `${v}`
ToStr(v) ==
    CASE v.t = "undefined" -> <<"u", "n", "d", "e", "f", "i", "n", "e", "d">>
      [] v.t = "null" -> <<"n", "u", "l", "l">>
      [] v.t = "string" -> v.s
      [] OTHER -> <<"[object Object]">>

\* An unpaired UTF-16 high surrogate.
LoneSurrogate == "\\uD800"

LowerChar(c) ==
    CASE c = "U" -> "u"
      [] c = "S" -> "s"
      [] OTHER -> c

\* String.prototype.toLowerCase
ToLowerCase(s) == [i \in 1..Len(s) |-> LowerChar(s[i])]

EncodeChar(c) ==
    CASE c = "/" -> <<"%", "2", "F">>
      [] c = " " -> <<"%", "2", "0">>
      [] OTHER -> <<c>>

RECURSIVE EncodeFrom(_, _)
EncodeFrom(s, i) ==
    IF i > Len(s) THEN <<>> ELSE EncodeChar(s[i]) \o EncodeFrom(s, i + 1)

\* encodeURIComponent throws URIError on a lone surrogate.
EncodeThrows(s) == \E i \in 1..Len(s) : s[i] = LoneSurrogate
encodeURIComponent(s) == EncodeFrom(s, 1)

\* Keys are serialised in this order.
KeyOrder == <<"type", "error", "message", "detail", "b", "a">>

RECURSIVE JSONStringify(_)
RECURSIVE StringifyKeys(_, _)
StringifyKeys(o, i) ==
    IF i > Len(KeyOrder) THEN <<>>
    ELSE IF KeyOrder[i] \in DOMAIN o
         THEN <<KeyOrder[i], ": ">> \o JSONStringify(o[KeyOrder[i]]) \o <<",">>
                  \o StringifyKeys(o, i + 1)
         ELSE StringifyKeys(o, i + 1)

\* JSON.stringify(v, null, 2)
JSONStringify(v) ==
    CASE v.t = "undefined" -> <<"u", "n", "d", "e", "f", "i", "n", "e", "d">>
      [] v.t = "null" -> <<"n", "u", "l", "l">>
      [] v.t = "string" -> <<"\"">> \o v.s \o <<"\"">>
      [] OTHER -> <<"{">> \o StringifyKeys(v.o, 1) \o <<"}">>

--------------------------------------------------------------------------
(* Errors                                                                  *)

NoError == [cls |-> "none"]

\* new McpError(code, message); the SDK prefixes the message with the code.
McpError(code, message) ==
    [cls |-> "McpError", code |-> code,
     message |-> <<"MCP error ", code, ": ">> \o message]

\* A TypeError or URIError raised by the runtime.
RuntimeError(message) == [cls |-> "Error", message |-> message]

\* An AxiosError; response is Undefined for a network-level failure.
AxiosError(message, response) ==
    [cls |-> "AxiosError", message |-> message, response |-> response]

StatusText(status) == IF status = 0 THEN "undefined" ELSE ToString(status)

\* A variant that consults the message field before the error field.
ApiMessageMessageFirst(data, message) ==
    Or(OptGet(data, "message"),
       Or(OptGet(data, "error"),
          Or(OptGet(data, "detail"), message)))

\* data?.error || data?.message || data?.detail || axiosError.message
ApiMessage(data, message) ==
    Or(OptGet(data, "error"),
       Or(OptGet(data, "message"),
          Or(OptGet(data, "detail"), message)))

\* A status of 0 stands for axiosError.response?.status being undefined.
mapApiErrorToMcpError(error) ==
    IF error.cls = "AxiosError"
    THEN LET response == error.response
             status == IF response.t = "undefined" THEN 0 ELSE response.status
             data == IF response.t = "undefined" THEN Undefined ELSE response.data
             text == ToStr(ApiMessage(data, error.message))
         IN CASE status = 400 ->
                   McpError("InvalidParams", <<"API Bad Request: ">> \o text)
              [] status = 404 ->
                   McpError("MethodNotFound", <<"API Not Found: ">> \o text)
              [] status = 408 ->
                   McpError("RequestTimeout", <<"API Request Timeout: ">> \o text)
              [] status \in {500, 502, 503, 504} ->
                   McpError("InternalError",
                            <<"API Server Error (", StatusText(status), "): ">> \o text)
              [] OTHER ->
                   McpError("InternalError",
                            <<"API Request Failed (", StatusText(status), "): ">> \o text)
    ELSE IF error.cls \in {"Error", "McpError"}
    THEN McpError("InternalError", <<"Request failed: ">> \o error.message)
    ELSE McpError("InternalError", <<"An unknown internal error occurred">>)

--------------------------------------------------------------------------
(* The catalog: the descriptors of ./tools.js, consumed as given           *)

NoBodyInfo == [present |-> FALSE, required |-> FALSE, content_type |-> Null]
BodyInfo(required, content_type) ==
    [present |-> TRUE, required |-> required, content_type |-> content_type]

Param(name, in, required) == [name |-> name, in |-> in, required |-> required]

NoMethod == "undefined"
DocName == <<"d", "o", "c">>

Catalog ==
    << [name |-> <<"a">>,
        _inputSchema |-> Obj([type |-> Str(<<"a">>)]),
        _original_method |-> "GET",
        _original_path |-> <<"/", "x", "/", "{id}">>,
        _original_parameters |->
            << Param("id", "path", TRUE),
               Param("country", "query", FALSE),
               Param("q", "query", TRUE) >>,
        _original_request_body |-> NoBodyInfo],
       [name |-> <<"b">>,
        _inputSchema |-> Obj([type |-> Str(<<"b">>)]),
        _original_method |-> "POST",
        _original_path |-> <<"/", "y">>,
        _original_parameters |->
            << Param("Authorization", "header", FALSE),
               Param("b", "body", FALSE),
               Param("r", "query", TRUE) >>,
        _original_request_body |-> NoBodyInfo],
       [name |-> <<"a", "b">>,
        _inputSchema |-> Obj([type |-> Str(<<"a", "b">>)]),
        _original_method |-> "POST",
        _original_path |-> <<"/", "z">>,
        _original_parameters |-> << Param("b", "body", FALSE) >>,
        _original_request_body |-> BodyInfo(TRUE, Null)],
       [name |-> <<"a", "_", "b">>,
        _inputSchema |-> Obj([type |-> Str(<<"a", "_", "b">>)]),
        _original_method |-> "PUT",
        _original_path |-> <<"/", "w">>,
        _original_parameters |-> << >>,
        _original_request_body |-> BodyInfo(FALSE, Str(<<"text/plain">>))],
       [name |-> <<"b", "a">>,
        _inputSchema |-> Obj([type |-> Str(<<"b", "a">>)]),
        _original_method |-> NoMethod,
        _original_path |-> <<"/", "v">>,
        _original_parameters |-> << >>,
        _original_request_body |-> NoBodyInfo] >>

\* tools.find(t => t.name === name): index of the first match, 0 when none.
Find(catalog, name) ==
    LET hits == {i \in 1..Len(catalog) : catalog[i].name = name}
    IN IF hits = {} THEN 0
       ELSE CHOOSE i \in hits : \A j \in hits : i <= j

--------------------------------------------------------------------------
(* The call-tool handler, up to its await                                  *)

LowercaseNames == {"us_state", "country", "country_code"}

\* The values the locals of the try block start with.
FreshLocals(originalPath, args, apiKey) ==
    [targetPath |-> originalPath,
     queryParams |-> EmptyObject,
     headers |-> [h \in {"Accept", "User-Agent", "Authorization"} |->
                    CASE h = "Accept" -> <<"application/json">>
                      [] h = "User-Agent" -> <<"ahrefs-mcp-server">>
                      [] OTHER -> <<"Bearer ">> \o apiKey],
     requestData |-> Undefined,
     requestBody |-> Get(args, "requestBody"),
     thrown |-> NoError]

\* A variant whose query and header maps are objects shared with the other
\* invocations instead of objects created by this one.
NewLocalsShared(others, originalPath, args, apiKey) ==
    LET live == {f \in others : "queryParams" \in DOMAIN f}
        fresh == FreshLocals(originalPath, args, apiKey)
    IN IF live = {} THEN fresh
       ELSE LET f == CHOOSE g \in live : TRUE
            IN [fresh EXCEPT !.queryParams = f.queryParams, !.headers = f.headers]

\* The locals are declared inside the handler: each invocation creates its
\* own, whatever the other invocations (others) hold.
NewLocals(others, originalPath, args, apiKey) ==
    FreshLocals(originalPath, args, apiKey)

\* targetPath.replace(`{${paramName}}`, text): the first occurrence only.
ReplaceFirst(path, paramName, text) ==
    LET ph == "{" \o paramName \o "}"
        hits == {i \in 1..Len(path) : path[i] = ph}
    IN IF hits = {} THEN path
       ELSE LET k == CHOOSE i \in hits : \A j \in hits : i <= j
            IN SubSeq(path, 1, k - 1) \o text \o SubSeq(path, k + 1, Len(path))

SetHeader(headers, name, text) ==
    [h \in (DOMAIN headers) \cup {name} |-> IF h = name THEN text ELSE headers[h]]

\* headers[paramName] = String(paramValue)
HeaderParam(st, paramName, paramValue) ==
    [st EXCEPT !.headers = SetHeader(st.headers, paramName, ToStr(paramValue))]

\* if (!requestBody) requestBody = {}; requestBody[paramName] = paramValue
\* (an assignment to a property of a primitive throws in strict mode)
BodyParam(st, paramName, paramValue) ==
    LET body == IF Truthy(st.requestBody) THEN st.requestBody ELSE EmptyObject
    IN IF body.t = "object"
       THEN [st EXCEPT !.requestBody = Put(body, paramName, paramValue)]
       ELSE [st EXCEPT !.thrown =
                RuntimeError(<<"Cannot create property '", paramName, "'">>)]

PathParam(st, paramName, paramValue) ==
    IF EncodeThrows(ToStr(paramValue))
    THEN [st EXCEPT !.thrown = RuntimeError(<<"URI malformed">>)]
    ELSE [st EXCEPT !.targetPath =
             ReplaceFirst(st.targetPath, paramName,
                          encodeURIComponent(ToStr(paramValue)))]

\* else if (param.required) throw ...
MissingParam(st, param) ==
    IF param.required
    THEN [st EXCEPT !.thrown =
             McpError("InvalidParams",
                      <<"Missing required parameter: ", param.name>>)]
    ELSE st

\* One iteration of the parameter loop.
ProcessParam(st, param, args) ==
    LET raw == Get(args, param.name)
        paramValue ==
            IF ~IsNullish(raw) /\ param.name \in LowercaseNames
            THEN Str(ToLowerCase(ToStr(raw)))
            ELSE raw
    IN IF ~IsNullish(paramValue)
       THEN CASE param.in = "path" -> PathParam(st, param.name, paramValue)
              [] param.in = "query" ->
                   [st EXCEPT !.queryParams = Put(st.queryParams, param.name, paramValue)]
              [] param.in = "header" -> HeaderParam(st, param.name, paramValue)
              [] param.in = "body" -> BodyParam(st, param.name, paramValue)
              [] OTHER -> st
       ELSE MissingParam(st, param)

RECURSIVE ProcessParameters(_, _, _, _)
ProcessParameters(st, params, i, args) ==
    IF i > Len(params) \/ st.thrown.cls # "none" THEN st
    ELSE ProcessParameters(ProcessParam(st, params[i], args), params, i + 1, args)

JsonContentType == <<"application/json">>

\* The branch that is taken when no request-body metadata applies.
DefaultContentType(st) ==
    IF st.requestData.t # "undefined"
    THEN [st EXCEPT !.headers = SetHeader(st.headers, "Content-Type", JsonContentType)]
    ELSE st

\* "Process requestBody"
ProcessRequestBody(st, info) ==
    IF st.thrown.cls # "none" THEN st
    ELSE IF info.present /\ ~IsNullish(st.requestBody)
    THEN [st EXCEPT !.requestData = st.requestBody,
                    !.headers = SetHeader(st.headers, "Content-Type",
                                    ToStr(Or(info.content_type, Str(JsonContentType))))]
    ELSE IF info.present /\ info.required
    THEN [st EXCEPT !.thrown =
             McpError("InvalidParams", <<"Missing required requestBody">>)]
    ELSE DefaultContentType(st)

\* The argument mapping of one invocation: the locals when the request is issued,
\* or when the try block is left by a throw.
MapArguments(others, tool, args, apiKey) ==
    ProcessRequestBody(
        ProcessParameters(NewLocals(others, tool._original_path, args, apiKey),
                          tool._original_parameters, 1, args),
        tool._original_request_body)

\* The configuration handed to axiosInstance.request.
RequestOf(tool, st) ==
    [method |-> tool._original_method,
     url |-> st.targetPath,
     params |-> st.queryParams,
     headers |-> st.headers,
     data |-> st.requestData]

NoRequest == [method |-> "none"]
NoLocals == [thrown |-> NoError, unused |-> TRUE]
NoResult == [none |-> TRUE]

TextResult(text) == [content |-> <<[type |-> "text", text |-> text]>>]

\* The envelope built by the catch block.
CaughtResult(error) ==
    LET mcpError == mapApiErrorToMcpError(error)
    IN [content |-> <<[type |-> "text", text |-> mcpError.message]>>,
        isError |-> TRUE,
        error |-> mcpError]

Threw(error) ==
    [kind |-> "throw", error |-> error, result |-> NoResult,
     request |-> NoRequest, locals |-> NoLocals]
Returned(result, locals) ==
    [kind |-> "return", error |-> NoError, result |-> result,
     request |-> NoRequest, locals |-> locals]
Awaiting(request, locals) ==
    [kind |-> "await", error |-> NoError, result |-> NoResult,
     request |-> request, locals |-> locals]

\* A variant that keeps what follows the first separator.
AfterFirstSeparator(s) ==
    LET seps == {i \in 1..Len(s) : s[i] = "_"}
    IN IF seps = {} THEN s
       ELSE LET k == CHOOSE i \in seps : \A j \in seps : i <= j
            IN SubSeq(s, k + 1, Len(s))

\* String(args.tool).split('_').pop()
LastSegment(s) ==
    LET seps == {i \in 1..Len(s) : s[i] = "_"}
    IN IF seps = {} THEN s
       ELSE LET k == CHOOSE i \in seps : \A j \in seps : j <= i
            IN SubSeq(s, k + 1, Len(s))

DocBranch(catalog, args) ==
    LET requestedToolName == LastSegment(ToStr(Get(args, "tool")))
        k == Find(catalog, requestedToolName)
    IN IF k = 0
       THEN Threw(McpError("MethodNotFound",
                           <<"Tool '">> \o requestedToolName \o <<"' not found.">>))
       ELSE Returned(TextResult(JSONStringify(catalog[k]._inputSchema)), NoLocals)

\* A variant of the catch block that raises the mapped error.
CatchRethrows(error, locals) == Threw(mapApiErrorToMcpError(error))

\* The catch block: whatever the try block raised is returned as an envelope.
Catch(error, locals) == Returned(CaughtResult(error), locals)

\* The tool branch: lines 119-198 and, for a throw inside try, 218-226.
ToolBranch(catalog, apiKey, others, toolName, args) ==
    LET k == Find(catalog, toolName)
    IN IF k = 0
       THEN Threw(McpError("MethodNotFound",
                           <<"Tool '">> \o toolName \o <<"' not found.">>))
       ELSE IF catalog[k]._original_method = NoMethod
       THEN Threw(McpError("InternalError",
                           <<"Internal configuration error for tool '">>
                               \o toolName \o <<"'.">>))
       ELSE LET st == MapArguments(others, catalog[k], args, apiKey)
            IN IF st.thrown.cls # "none"
               THEN Catch(st.thrown, st)
               ELSE Awaiting(RequestOf(catalog[k], st), st)

\* The handler from its entry to its first await, return or throw.
CallToolSync(catalog, apiKey, others, toolName, args) ==
    IF toolName = DocName
    THEN DocBranch(catalog, args)
    ELSE ToolBranch(catalog, apiKey, others, toolName, args)

--------------------------------------------------------------------------
(* The upstream call and the rest of the handler                           *)

Response(status, contentType, data) ==
    [t |-> "response", status |-> status, contentType |-> contentType, data |-> data]
NetworkFailure(message) == [t |-> "network", message |-> message]
NoResponse == [t |-> "none"]

validateStatus(status) == status >= 200 /\ status < 300

\* responseContentType.includes('application/json')
IncludesJson(contentType) ==
    \E i \in 1..Len(contentType.s) : contentType.s[i] = "application/json"

\* "Format Response for MCP"
FormatResponse(response) ==
    IF Truthy(response.contentType) /\ IncludesJson(response.contentType)
       /\ response.data.t \in {"object", "null"}
    THEN TextResult(JSONStringify(response.data))
    ELSE TextResult(ToStr(response.data))

\* What axios raises for an upstream outcome that is not a success.
AxiosFailure(net) ==
    IF net.t = "network"
    THEN AxiosError(Str(net.message), Undefined)
    ELSE AxiosError(Str(<<"Request failed with status code ", ToString(net.status)>>),
                    net)

\* The handler from the resumption of its await to its return.
CallToolResume(net, locals) ==
    IF net.t = "response" /\ validateStatus(net.status)
    THEN Returned(FormatResponse(net), locals)
    ELSE Catch(AxiosFailure(net), locals)

--------------------------------------------------------------------------
(* Inputs                                                                  *)

Credentials == {<<"k", "1">>, <<"k", "2">>}

\* Values a caller may give a parameter; a path parameter may also get a text
\* that holds a lone surrogate.
ParamVals == {Undefined, Null, Str(<<"U", "S">>)}
PathVals == {Undefined, Null, Str(<<"U", "/">>), Str(<<LoneSurrogate>>)}
BodyVals == {Undefined, Str(<<>>), Str(<<"r">>), Obj([a |-> Str(<<"x">>)])}

ParamNames(tool) ==
    {tool._original_parameters[i].name : i \in 1..Len(tool._original_parameters)}

\* The argument maps a caller may send for a tool.
ValsFor(tool, k) ==
    IF k = "requestBody" THEN BodyVals
    ELSE IF \E i \in 1..Len(tool._original_parameters) :
               tool._original_parameters[i].name = k
               /\ tool._original_parameters[i].in = "path"
    THEN PathVals
    ELSE ParamVals

ArgsFor(tool) ==
    LET keys == ParamNames(tool) \cup {"requestBody"}
    IN {Obj(f) : f \in {g \in [keys -> ParamVals \cup PathVals \cup BodyVals] :
                          \A k \in keys : g[k] \in ValsFor(tool, k)}}

NameChars == {"a", "b", "_"}
Texts(n) == UNION {[1..k -> NameChars] : k \in 0..n}
DocArgs ==
    {Obj([tool |-> v]) : v \in {Undefined} \cup {Str(s) : s \in Texts(MaxToolArgLen)}}

UnknownName == <<"b", "b">>

CallInputs ==
    {<<DocName, a>> : a \in DocArgs}
    \cup UNION {{<<Catalog[i].name, a>> : a \in ArgsFor(Catalog[i])} : i \in 1..Len(Catalog)}
    \cup {<<UnknownName, EmptyObject>>}

FailStatuses == {300, 400, 401, 404, 408, 500, 502, 503, 504}
OkStatuses == {200, 204}

\* Response bodies with any of the error, message and detail fields absent,
\* empty or filled.
FieldVals(k) == {Undefined, Str(<<>>), Str(<<k>>)}
ErrorObjects ==
    {Obj([k \in {n \in {"error", "message", "detail"} : f[n].t # "undefined"} |-> f[k]]) :
        f \in {g \in [{"error", "message", "detail"} ->
                        {Undefined, Str(<<>>), Str(<<"error">>), Str(<<"message">>),
                         Str(<<"detail">>)}] :
                 \A n \in {"error", "message", "detail"} : g[n] \in FieldVals(n)}}
ErrorBodies == ErrorObjects \cup {Undefined, Str(<<"h", "t", "m", "l">>)}

ContentTypes ==
    {Undefined, Str(<<"application/json">>),
     Str(<<"application/json", ";", " ", "charset=utf-8">>), Str(<<"text/plain">>)}
OkBodies == {Obj([a |-> Str(<<"1">>)]), Str(<<"o", "k">>), Null}

NetworkMessages == {<<"Network Error">>, <<"timeout of 30000ms exceeded">>}

UpstreamOutcomes ==
    {Response(st, Str(<<"application/json">>), d) : st \in FailStatuses, d \in ErrorBodies}
    \cup {Response(st, ct, d) : st \in OkStatuses, ct \in ContentTypes, d \in OkBodies}
    \cup {NetworkFailure(m) : m \in NetworkMessages}

\* The interleaving specification runs several calls over these.
ConcurrentInputs ==
    { <<Catalog[1].name,
        Obj([id |-> Str(<<"U", "/">>), country |-> Str(<<"U", "S">>),
             q |-> Str(<<"a">>)])>>,
      <<Catalog[2].name,
        Obj([Authorization |-> Str(<<"x">>), b |-> Str(<<"v">>),
             r |-> Str(<<"b">>)])>>,
      <<Catalog[3].name, EmptyObject>>,
      <<Catalog[4].name, Obj([requestBody |-> Obj([a |-> Str(<<"x">>)])])>>,
      <<DocName, Obj([tool |-> Str(<<"_", "a">>)])>> }

ConcurrentOutcomes ==
    { Response(200, Str(<<"application/json">>), Obj([a |-> Str(<<"1">>)])),
      Response(404, Str(<<"application/json">>), Obj([error |-> Str(<<"error">>)])),
      NetworkFailure(<<"Network Error">>) }

\* The gateway specification posts this request and answers it with this.
GatewayInputs ==
    { <<Catalog[1].name,
        Obj([id |-> Str(<<"U", "/">>), q |-> Str(<<"a">>)])>> }
GatewayOutcomes ==
    { Response(200, Str(<<"application/json">>), Obj([a |-> Str(<<"1">>)])) }

\* Error shapes for direct applications of mapApiErrorToMcpError.
ErrorShapes ==
    {AxiosFailure(net) : net \in {o \in UpstreamOutcomes :
                                    ~(o.t = "response" /\ validateStatus(o.status))}}
    \cup {RuntimeError(<<"URI malformed">>),
          McpError("InvalidParams", <<"Missing required requestBody">>),
          [cls |-> "string", message |-> <<"thrown text">>],
          [cls |-> "object", message |-> <<>>]}

--------------------------------------------------------------------------
(* State                                                                   *)

Signals == {"SIGINT", "SIGTERM"}

FreeCall ==
    [status |-> "free", name |-> <<>>, args |-> EmptyObject, handedTo |-> 0,
     kind |-> "none", error |-> NoError, result |-> NoResult,
     request |-> NoRequest, response |-> NoResponse]

\* The module has been loaded: no session, no signal, no message.
InitCommon ==
    /\ tools = Catalog
    /\ closedSessions = {}
    /\ closing = {}
    /\ closeStarted = {}
    /\ closeCompleted = {}
    /\ exited = FALSE
    /\ exitCode = -1
    /\ calls = [c \in 1..MaxCalls |-> FreeCall]
    /\ frames = [c \in 1..MaxCalls |-> NoLocals]
    /\ mapOut = NoError

InitGateway ==
    /\ InitCommon
    /\ API_KEY = <<"k", "1">>
    /\ transport = 0
    /\ established = 0
    /\ serverTransport = 0
    /\ connecting = {}
    /\ mapIn = NoError

\* One session has been established and connected.
Init ==
    /\ InitCommon
    /\ API_KEY \in Credentials
    /\ transport = 1
    /\ established = 1
    /\ serverTransport = 1
    /\ connecting = {}
    /\ mapIn = NoError

InitMapError ==
    /\ InitCommon
    /\ API_KEY = <<"k", "1">>
    /\ transport = 0
    /\ established = 0
    /\ serverTransport = 0
    /\ connecting = {}
    /\ mapIn \in ErrorShapes

sessionVars == <<transport, established, serverTransport, connecting, closedSessions>>
signalVars == <<closing, closeStarted, closeCompleted>>
exitVars == <<exited, exitCode>>
callVars == <<calls, frames>>
mapVars == <<mapIn, mapOut>>
configVars == <<tools, API_KEY>>

--------------------------------------------------------------------------
(* Sessions: app.get("/sse") and app.post("/messages")                     *)

\* A variant that keeps an existing session.
NewTransportKeepsFirst(current, fresh) == IF current # 0 THEN current ELSE fresh

\* transport = new SSEServerTransport(...)
NewTransport(current, fresh) == fresh

\* app.get("/sse")
SseGet ==
    /\ ~exited
    /\ established < MaxSessions
    /\ established' = established + 1
    /\ transport' = NewTransport(transport, established + 1)
    /\ serverTransport' = transport'
    /\ connecting' = connecting \cup {transport'}
    /\ UNCHANGED <<closedSessions, signalVars, exitVars, callVars, mapVars, configVars>>

\* server.connect(transport).then(...)
ConnectOk(s) ==
    /\ ~exited
    /\ s \in connecting
    /\ connecting' = connecting \ {s}
    /\ UNCHANGED <<transport, established, serverTransport, closedSessions,
                   signalVars, exitVars, callVars, mapVars, configVars>>

\* server.connect(transport).catch(...): process.exit(1)
ConnectFail(s) ==
    /\ ~exited
    /\ s \in connecting
    /\ connecting' = connecting \ {s}
    /\ exited' = TRUE
    /\ exitCode' = 1
    /\ UNCHANGED <<transport, established, serverTransport, closedSessions,
                   signalVars, callVars, mapVars, configVars>>

\* if (transport) transport.handlePostMessage(req, res)
HandedTo(current) == current

\* app.post("/messages") with a call-tool request as its message; the
\* messages are numbered in their order of arrival.
PostMessage(c, toolName, args) ==
    /\ ~exited
    /\ calls[c].status = "free"
    /\ \A d \in 1..(c - 1) : calls[d].status # "free"
    /\ calls' = [calls EXCEPT ![c] =
                    [FreeCall EXCEPT !.status = IF HandedTo(transport) = 0
                                                THEN "dropped" ELSE "posted",
                                     !.name = toolName,
                                     !.args = args,
                                     !.handedTo = HandedTo(transport)]]
    /\ UNCHANGED <<frames, sessionVars, signalVars, exitVars, mapVars, configVars>>

--------------------------------------------------------------------------
(* The call-tool handler                                                   *)

OtherFrames(c) == {frames[d] : d \in (1..MaxCalls) \ {c}}

\* The handler runs from its entry to its first await, return or throw.
CallTool(c) ==
    /\ ~exited
    /\ calls[c].status = "posted"
    /\ LET r == CallToolSync(tools, API_KEY, OtherFrames(c), calls[c].name, calls[c].args)
       IN /\ calls' = [calls EXCEPT ![c] =
                          [@ EXCEPT !.status = IF r.kind = "await" THEN "awaiting" ELSE "done",
                                    !.kind = r.kind,
                                    !.error = r.error,
                                    !.result = r.result,
                                    !.request = r.request]]
          /\ frames' = [frames EXCEPT ![c] = r.locals]
    /\ UNCHANGED <<sessionVars, signalVars, exitVars, mapVars, configVars>>

\* The upstream call settles and the handler runs to its return.
Respond(c, net) ==
    /\ ~exited
    /\ calls[c].status = "awaiting"
    /\ LET r == CallToolResume(net, frames[c])
       IN calls' = [calls EXCEPT ![c] =
                       [@ EXCEPT !.status = "done",
                                 !.kind = r.kind,
                                 !.error = r.error,
                                 !.result = r.result,
                                 !.response = net]]
    /\ UNCHANGED <<frames, sessionVars, signalVars, exitVars, mapVars, configVars>>

--------------------------------------------------------------------------
(* Termination signals                                                     *)

\* A variant of the signal handler that does not await the close.
SignalExitsAtOnce(sig) ==
    /\ ~exited
    /\ closeStarted' = closeStarted \cup {sig}
    /\ exited' = TRUE
    /\ exitCode' = 0
    /\ UNCHANGED <<closing, closeCompleted, sessionVars, callVars, mapVars, configVars>>

\* process.on(sig): the handler calls server.close() and awaits it.
Signal(sig) ==
    /\ ~exited
    /\ sig \notin closing
    /\ closing' = closing \cup {sig}
    /\ closeStarted' = closeStarted \cup {sig}
    /\ UNCHANGED <<closeCompleted, sessionVars, exitVars, callVars, mapVars, configVars>>

\* server.close() resolves; the handler resumes and calls process.exit(0).
CloseDone(sig) ==
    /\ ~exited
    /\ sig \in closing
    /\ closing' = closing \ {sig}
    /\ closeCompleted' = closeCompleted \cup {sig}
    /\ closedSessions' = closedSessions \cup ({serverTransport} \ {0})
    /\ serverTransport' = 0
    /\ exited' = TRUE
    /\ exitCode' = 0
    /\ UNCHANGED <<transport, established, connecting, closeStarted,
                   callVars, mapVars, configVars>>

--------------------------------------------------------------------------
(* Direct application of the failure translation                           *)

ApplyMap ==
    /\ mapOut = NoError
    /\ mapOut' = mapApiErrorToMcpError(mapIn)
    /\ UNCHANGED <<mapIn, sessionVars, signalVars, exitVars, callVars, configVars>>

--------------------------------------------------------------------------
(* Specifications                                                          *)

\* One call-tool request at a time on an established session, over every input.
Next ==
    \/ \E in \in CallInputs : PostMessage(1, in[1], in[2])
    \/ CallTool(1)
    \/ \E net \in UpstreamOutcomes : Respond(1, net)

Spec == Init /\ [][Next]_vars

\* Sessions, signals and interleaved calls.
NextGateway ==
    \/ SseGet
    \/ \E s \in 1..MaxSessions : ConnectOk(s)
    \/ \E s \in 1..MaxSessions : ConnectFail(s)
    \/ \E c \in 1..MaxCalls, in \in GatewayInputs : PostMessage(c, in[1], in[2])
    \/ \E c \in 1..MaxCalls : CallTool(c)
    \/ \E c \in 1..MaxCalls, net \in GatewayOutcomes : Respond(c, net)
    \/ \E sig \in Signals : Signal(sig)
    \/ \E sig \in Signals : CloseDone(sig)

SpecGateway == InitGateway /\ [][NextGateway]_vars

\* Several call-tool requests in flight on an established session.
NextCalls ==
    \/ \E c \in 1..MaxCalls, in \in ConcurrentInputs : PostMessage(c, in[1], in[2])
    \/ \E c \in 1..MaxCalls : CallTool(c)
    \/ \E c \in 1..MaxCalls, net \in ConcurrentOutcomes : Respond(c, net)

SpecCalls == Init /\ [][NextCalls]_vars

\* The failure translation applied to every error shape.
NextMapError == ApplyMap

SpecMapError == InitMapError /\ [][NextMapError]_vars

--------------------------------------------------------------------------
(* Vocabulary of the properties                                            *)

Calls == 1..MaxCalls
Handled(c) == calls[c].status \in {"awaiting", "done"}
Done(c) == calls[c].status = "done"

\* The call names a catalogued tool that carries its HTTP metadata.
Callable(c) ==
    /\ calls[c].name # DocName
    /\ \E i \in 1..Len(tools) :
          tools[i].name = calls[c].name /\ tools[i]._original_method # NoMethod
ToolOf(c) == tools[Find(tools, calls[c].name)]
ParamsOf(c) == ToolOf(c)._original_parameters

\* Positions of the required parameters that the arguments leave absent.
AbsentRequired(c) ==
    {i \in 1..Len(ParamsOf(c)) :
        ParamsOf(c)[i].required /\ IsNullish(Get(calls[c].args, ParamsOf(c)[i].name))}
FirstAbsentRequired(c) ==
    CHOOSE i \in AbsentRequired(c) : \A j \in AbsentRequired(c) : i <= j

\* A body is populated: args.requestBody is given, or a body parameter is.
BodySupplied(c) ==
    \/ ~IsNullish(Get(calls[c].args, "requestBody"))
    \/ \E i \in 1..Len(ParamsOf(c)) :
          ParamsOf(c)[i].in = "body" /\ ~IsNullish(Get(calls[c].args, ParamsOf(c)[i].name))

\* A body exists: args.requestBody is an object, or a body parameter is given.
BodyExists(c) ==
    \/ Get(calls[c].args, "requestBody").t = "object"
    \/ \E i \in 1..Len(ParamsOf(c)) :
          ParamsOf(c)[i].in = "body" /\ ~IsNullish(Get(calls[c].args, ParamsOf(c)[i].name))

ValidationFails(c) ==
    \/ AbsentRequired(c) # {}
    \/ /\ ToolOf(c)._original_request_body.present
       /\ ToolOf(c)._original_request_body.required
       /\ ~BodySupplied(c)

IsErrorResult(r) == "isError" \in DOMAIN r /\ r.isError
ProtocolError(c, code) == calls[c].kind = "throw" /\ calls[c].error.code = code
Failed(c) ==
    calls[c].kind = "throw" \/ (calls[c].kind = "return" /\ IsErrorResult(calls[c].result))
FailureMessage(c) ==
    IF calls[c].kind = "throw" THEN calls[c].error.message
    ELSE calls[c].result.content[1].text

Contains(text, part) ==
    \E i \in 0..(Len(text) - Len(part)) : SubSeq(text, i + 1, i + Len(part)) = part
EndsWith(text, part) ==
    Len(part) <= Len(text) /\ SubSeq(text, Len(text) - Len(part) + 1, Len(text)) = part

Issued(c) == calls[c].request # NoRequest
UpstreamFailed(net) ==
    \/ net.t = "network"
    \/ net.t = "response" /\ (net.status < 200 \/ net.status > 299)

--------------------------------------------------------------------------
(* C1 *)

\* C1: a call on a catalogued tool whose argument mapping fails validation (a
\* required parameter absent, or a required body not populated) ends as a
\* protocol-level InvalidParams error, never as an envelope with isError.
C1_ValidationIsProtocolError ==
    \A c \in Calls :
        (Done(c) /\ Callable(c) /\ ValidationFails(c))
            => ProtocolError(c, "InvalidParams")

--------------------------------------------------------------------------
(* C2 *)

\* C2: when some required parameter is absent, the call fails with a
\* missing-parameter failure naming the first such parameter in catalog
\* order, and no outbound request is issued, whatever parameters precede it.
C2_FirstMissingParameterNamed ==
    \A c \in Calls :
        (Handled(c) /\ Callable(c) /\ AbsentRequired(c) # {})
            => /\ ~Issued(c)
               /\ Failed(c)
               /\ Contains(FailureMessage(c),
                           <<"Missing required parameter: ",
                             ParamsOf(c)[FirstAbsentRequired(c)].name>>)

--------------------------------------------------------------------------
(* C3 *)

\* C3: every outbound request carries Authorization = "Bearer <credential>",
\* also when the descriptor declares a header parameter named Authorization
\* and the caller supplies it.
C3_AuthorizationIsCredential ==
    \A c \in Calls :
        Issued(c) => calls[c].request.headers["Authorization"] = <<"Bearer ">> \o API_KEY

--------------------------------------------------------------------------
(* C4 *)

\* C4: a call whose outbound request was issued and failed (no response, or
\* a status outside [200,300)) returns an envelope with isError = true, one
\* text item holding the mapped error's message, and the structured error;
\* it raises no protocol-level error.
C4_UpstreamFailureIsEnvelope ==
    \A c \in Calls :
        (Done(c) /\ Issued(c) /\ UpstreamFailed(calls[c].response))
            => /\ calls[c].kind = "return"
               /\ IsErrorResult(calls[c].result)
               /\ Len(calls[c].result.content) = 1
               /\ calls[c].result.content[1].type = "text"
               /\ calls[c].result.error.cls = "McpError"
               /\ calls[c].result.content[1].text = calls[c].result.error.message

C4_Witness ==
    \E c \in Calls :
        /\ Done(c) /\ Issued(c)
        /\ calls[c].response.t = "network"
        /\ IsErrorResult(calls[c].result)

--------------------------------------------------------------------------
(* C5 *)

\* The kind the translation is said to give to an error.
ExpectedCode(e) ==
    IF e.cls = "AxiosError" /\ e.response.t = "response"
    THEN CASE e.response.status = 400 -> "InvalidParams"
           [] e.response.status = 404 -> "MethodNotFound"
           [] e.response.status = 408 -> "RequestTimeout"
           [] OTHER -> "InternalError"
    ELSE "InternalError"

\* A body field gives the message when it is there and not empty.
Gives(data, k) == data.t = "object" /\ k \in DOMAIN data.o /\ Truthy(data.o[k])
ExpectedText(e) ==
    LET data == IF e.response.t = "response" THEN e.response.data ELSE Undefined
    IN IF Gives(data, "error") THEN data.o["error"]
       ELSE IF Gives(data, "message") THEN data.o["message"]
       ELSE IF Gives(data, "detail") THEN data.o["detail"]
       ELSE e.message

\* C5: the failure translation is total: 400 gives InvalidParams, 404
\* MethodNotFound, 408 RequestTimeout, every other status, a failure without
\* a status and an unrecognized error shape give InternalError; the message
\* comes from the body's error field, else message, else detail, else the
\* transport message.
C5_TranslationTable ==
    mapOut # NoError =>
        /\ mapOut.cls = "McpError"
        /\ mapOut.code = ExpectedCode(mapIn)
        /\ mapIn.cls = "AxiosError" => EndsWith(mapOut.message, ToStr(ExpectedText(mapIn)))

C5_Witness ==
    /\ mapOut # NoError
    /\ mapIn.cls = "AxiosError"
    /\ mapIn.response.t = "response"
    /\ mapIn.response.status = 404
    /\ mapOut.code = "MethodNotFound"
    /\ Gives(mapIn.response.data, "error")
    /\ Gives(mapIn.response.data, "message")
    /\ EndsWith(mapOut.message, <<"error">>)

--------------------------------------------------------------------------
(* C6 *)

\* C6: when the descriptor declares no requestBody metadata and a body
\* exists, the outbound request has Content-Type set to the JSON default.
C6_BodyWithoutMetadataIsJson ==
    \A c \in Calls :
        (Issued(c) /\ Callable(c)
           /\ ~ToolOf(c)._original_request_body.present /\ BodyExists(c))
            => /\ "Content-Type" \in DOMAIN calls[c].request.headers
               /\ calls[c].request.headers["Content-Type"] = JsonContentType

--------------------------------------------------------------------------
(* C7 *)

\* C7: the gateway's one session reference is the most recently established
\* session; establishing a session replaces the reference without closing the
\* previous session; a posted message is handed to the session held at that
\* moment, and to none when no session exists.
C7_SingleSessionSlot ==
    /\ [](transport = established)
    /\ [][ /\ transport' # transport
              => (closedSessions' = closedSessions /\ transport' = established')
           /\ \A c \in Calls :
                 (calls[c].status = "free" /\ calls'[c].status # "free")
                    => /\ calls'[c].handedTo = transport
                       /\ transport = 0 <=> calls'[c].status = "dropped" ]_vars

C7_Witness ==
    /\ transport = 2
    /\ 1 \notin closedSessions
    /\ ~exited
    /\ \E c, d \in Calls :
          /\ calls[c].status = "dropped" /\ calls[c].handedTo = 0
          /\ calls[d].handedTo = 2

--------------------------------------------------------------------------
(* C8 *)

\* C8: on either termination signal, in any gateway state, the session close
\* is started first and the process exits with code 0 only after that close
\* has completed; after the exit no further state is reached.
C8_CloseThenExit ==
    /\ []((exited /\ exitCode = 0)
            => (closeCompleted # {} /\ closeCompleted \subseteq closeStarted))
    /\ [][ /\ ~exited
           /\ \A sig \in Signals :
                 (sig \in closeStarted' /\ sig \notin closeStarted)
                    => (sig \in closing' /\ ~exited')
           /\ (exited' /\ exitCode' = 0)
                 => \E sig \in closing : sig \in closeCompleted' ]_vars

C8_Witness ==
    /\ exited /\ exitCode = 0
    /\ transport # 0
    /\ closeCompleted = {"SIGTERM"}
    /\ closeStarted = Signals
    /\ \E c \in Calls : calls[c].status = "awaiting"

--------------------------------------------------------------------------
(* C9 *)

\* What is left of a text once everything up to and including its last "_"
\* is stripped.
Remainder(s) ==
    LET k == CHOOSE i \in 0..Len(s) :
                 /\ i = 0 \/ s[i] = "_"
                 /\ \A j \in (i + 1)..Len(s) : s[j] # "_"
    IN SubSeq(s, k + 1, Len(s))

\* C9: a call named "doc" looks the tool argument, stripped up to its last
\* "_", up in the catalog: a tool of that name gives a non-error envelope
\* holding its stored input schema, no such tool gives a MethodNotFound
\* protocol error; no outbound request is issued.
C9_DocLookup ==
    \A c \in Calls :
        (Done(c) /\ calls[c].name = DocName)
            => LET wanted == Remainder(ToStr(Get(calls[c].args, "tool")))
                   found == {i \in 1..Len(tools) : tools[i].name = wanted}
               IN /\ ~Issued(c)
                  /\ found # {}
                       => /\ calls[c].kind = "return"
                          /\ ~IsErrorResult(calls[c].result)
                          /\ \E i \in found :
                                calls[c].result =
                                    TextResult(JSONStringify(tools[i]._inputSchema))
                  /\ found = {} => ProtocolError(c, "MethodNotFound")

C9_Witness ==
    \E c \in Calls :
        /\ Done(c) /\ calls[c].name = DocName
        /\ Get(calls[c].args, "tool") = Str(<<"_", "_", "a">>)
        /\ calls[c].kind = "return"
        /\ calls[c].result = TextResult(JSONStringify(Catalog[1]._inputSchema))

--------------------------------------------------------------------------
(* C10 *)

\* What an invocation does with its own tool name and arguments when no
\* other invocation exists.
Alone(c) == CallToolSync(tools, API_KEY, {}, calls[c].name, calls[c].args)

\* C10: with several calls in flight, each call's outbound request and
\* outcome depend only on its own descriptor, arguments and upstream
\* response; a call's locals are written by that call alone; the catalog and
\* the credential are never modified.
C10_CallsAreIndependent ==
    /\ [](\A c \in Calls :
            Handled(c)
               => /\ frames[c] = Alone(c).locals
                  /\ calls[c].request = Alone(c).request
                  /\ calls[c].response = NoResponse
                        => (calls[c].kind = Alone(c).kind
                              /\ calls[c].result = Alone(c).result
                              /\ calls[c].error = Alone(c).error)
                  /\ calls[c].response # NoResponse
                        => calls[c].result
                             = CallToolResume(calls[c].response, Alone(c).locals).result)
    /\ [][ /\ tools' = tools
           /\ API_KEY' = API_KEY
           /\ \A c \in Calls :
                 frames'[c] # frames[c]
                    => (calls[c].status = "posted" /\ calls'[c].status # "posted") ]_vars

C10_Witness ==
    /\ calls[1].status = "awaiting"
    /\ calls[1].name = Catalog[1].name
    /\ calls[2].status = "done"
    /\ calls[2].name = Catalog[2].name
    /\ calls[2].response.t = "response"

====
